---- MODULE Spec2Model ----
(***************************************************************************)
(* Model of build.py, the build orchestration script of discord-rpc.       *)
(*                                                                         *)
(* One run of the script is one behaviour: the module-level code runs      *)
(* (platform detection), then the __main__ block, then the click group     *)
(* callback and the commands it dispatches.  Every external command        *)
(* (subprocess.check_call) is one step whose exit status is chosen         *)
(* nondeterministically.  Paths, file names and operating-system           *)
(* identifiers are strings; the os.path functions are computed on their    *)
(* characters, with "/" as the separator.                                  *)
(***************************************************************************)
EXTENDS Integers, Sequences, FiniteSets, TLC

VARIABLES
    sys_platform,   \* sys.platform, the operating-system identifier
    IS_BUILD_MACHINE, \* os.environ.get('CI', '') == 'true'
    has_sdk,        \* 'WindowsSdkDir' in os.environ
    subcommand,     \* ctx.invoked_subcommand ("none" for None)
    clean,          \* the --clean flag that reaches libs
    PLATFORM,       \* module constant PLATFORM ("" before it is set)
    pc,             \* position of the run
    cwd,            \* os.getcwd()
    old_dir,        \* old_dir of the active cd() context manager
    files,          \* regular files of the filesystem (absolute paths)
    dirs,           \* directories of the filesystem (absolute paths)
    cmds,           \* external commands invoked so far, with their outcome
    built,          \* build_lib calls made so far: (name, generator, options)
    bidx,           \* index of the next configuration libs will build
    todo,           \* (path, fname) pairs the running os.walk has yet to yield
    entries,        \* archive_file.write calls so far: (file, arcname)
    phases,         \* phases started/finished so far
    files_at_libs,  \* history: files when libs was entered
    cwd_at_build    \* history: cwd when the running build_lib was entered

vars == <<sys_platform, IS_BUILD_MACHINE, has_sdk, subcommand, clean, PLATFORM,
          pc, cwd, old_dir, files, dirs, cmds, built, bidx, todo, entries,
          phases, files_at_libs, cwd_at_build>>

\* ------------------------------------------------------------------ bounds
\* number of candidate pre-existing files a run may start with
MaxPreFiles == 3

\* ------------------------------------------------------------------ strings
Char(s, i) == SubSeq(s, i, i)

\* str.startswith
startswith(s, prefix) ==
    Len(s) >= Len(prefix) /\ SubSeq(s, 1, Len(prefix)) = prefix

\* str.rfind, 1-based; 0 when absent (Python: -1)
rfind(s, ch) ==
    LET hits == {i \in 1..Len(s) : Char(s, i) = ch}
    IN  IF hits = {} THEN 0 ELSE CHOOSE i \in hits : \A j \in hits : j <= i

\* str.split(sep) for a one-character separator
RECURSIVE split(_, _)
split(s, sep) ==
    LET hits == {i \in 1..Len(s) : Char(s, i) = sep}
    IN  IF hits = {} THEN <<s>>
        ELSE LET i == CHOOSE k \in hits : \A j \in hits : k <= j
             IN  <<SubSeq(s, 1, i - 1)>> \o split(SubSeq(s, i + 1, Len(s)), sep)

\* sep.join(comps)
RECURSIVE joinstr(_, _)
joinstr(sep, comps) ==
    IF comps = <<>> THEN ""
    ELSE IF Len(comps) = 1 THEN comps[1]
    ELSE comps[1] \o sep \o joinstr(sep, Tail(comps))

\* ------------------------------------------------------------------ os.path
\* os.path.join(a, b)
join(a, b) ==
    IF startswith(b, "/") THEN b
    ELSE IF a = "" \/ Char(a, Len(a)) = "/" THEN a \o b
    ELSE a \o "/" \o b

\* the component loop of os.path.normpath
RECURSIVE normcomps(_, _, _)
normcomps(comps, new_comps, initial_slashes) ==
    IF comps = <<>> THEN new_comps
    ELSE LET comp == Head(comps)
             n == Len(new_comps)
         IN  IF comp = "" \/ comp = "."
             THEN normcomps(Tail(comps), new_comps, initial_slashes)
             ELSE IF comp # ".."
                     \/ (~initial_slashes /\ n = 0)
                     \/ (n > 0 /\ new_comps[n] = "..")
             THEN normcomps(Tail(comps), Append(new_comps, comp), initial_slashes)
             ELSE IF n > 0
             THEN normcomps(Tail(comps), SubSeq(new_comps, 1, n - 1), initial_slashes)
             ELSE normcomps(Tail(comps), new_comps, initial_slashes)

\* os.path.normpath
normpath(path) ==
    IF path = "" THEN "."
    ELSE LET initial_slashes == startswith(path, "/")
             comps == normcomps(split(path, "/"), <<>>, initial_slashes)
             body == joinstr("/", comps)
             res == IF initial_slashes THEN "/" \o body ELSE body
         IN  IF res = "" THEN "." ELSE res

\* splitext that takes a leading dot for the start of an extension
splitext_ext_leading_dot(p) ==
    LET sepIndex == rfind(p, "/")
        dotIndex == rfind(p, ".")
    IN  IF dotIndex > sepIndex THEN SubSeq(p, dotIndex, Len(p)) ELSE ""

\* os.path.splitext(p)[1]
splitext_ext(p) ==
    LET sepIndex == rfind(p, "/")
        dotIndex == rfind(p, ".")
    IN  IF dotIndex > sepIndex
           /\ \E k \in (sepIndex + 1)..(dotIndex - 1) : Char(p, k) # "."
        THEN SubSeq(p, dotIndex, Len(p))
        ELSE ""

\* the absolute path a (possibly relative) path names in directory d
abspath(d, p) == normpath(join(d, p))

\* f lies under directory root (at any depth)
Under(root, f) == startswith(f, root \o "/")

\* every directory on the way to p, p excluded
Parents(p) == {SubSeq(p, 1, i - 1) : i \in {k \in 2..Len(p) : Char(p, k) = "/"}}

\* ------------------------------------------------------------------ module constants
SCRIPT_PATH == "/repo"
INSTALL_ROOT == join(join(SCRIPT_PATH, "builds"), "install")

\* get_platform that tests the macOS identifier as a prefix too
get_platform_darwin_prefix(ident) ==
    IF startswith(ident, "win") THEN "win"
    ELSE IF startswith(ident, "darwin") THEN "osx"
    ELSE IF startswith(ident, "linux") THEN "linux"
    ELSE ""

\* get_platform(); "" stands for the raised exception
get_platform(ident) ==
    IF startswith(ident, "win") THEN "win"
    ELSE IF ident = "darwin" THEN "osx"
    ELSE IF startswith(ident, "linux") THEN "linux"
    ELSE ""

\* get_signtool(); None on a platform without a signing tool
None == "None"
get_signtool(platform) ==
    IF platform = "win" THEN join(join(join("C:/sdk", "bin"), "x86"), "signtool.exe")
    ELSE IF platform = "osx" THEN "/usr/bin/codesign"
    ELSE None

\* signable_extensions of sign()
signable_extensions(platform) ==
    IF platform = "win" THEN {".dll"}
    ELSE IF platform = "osx" THEN {".dylib"}
    ELSE {}

\* sign_command_base of sign()
sign_command_base(platform) ==
    IF platform = "win"
    THEN <<get_signtool(platform), "sign", "/n", "Hammer & Chisel Inc.", "/a",
           "/tr", "http://timestamp.digicert.com/rfc3161", "/as",
           "/td", "sha256", "/fd", "sha256">>
    ELSE <<get_signtool(platform), "--keychain",
           "~/Library/Keychains/login.keychain", "-vvvv", "--deep", "--force",
           "--sign", "Developer ID Application: Hammer & Chisel Inc. (53Q6R32WPB)">>

\* a table whose linux entries are listed dynamic first
lib_configs_swapped(platform, ci) ==
    LET cfg(n, g, o) == [name |-> n, generator |-> g, options |-> o]
    IN  IF platform = "linux"
        THEN << cfg("linux-dynamic", None, << <<"BUILD_SHARED_LIBS", TRUE>> >>),
                cfg("linux-static", None, <<>>) >>
        ELSE <<>>

\* the build_lib calls of libs(), per platform, in order;
\* options is the dictionary as its (key, value) pairs in insertion order
lib_configs(platform, ci) ==
    LET generator32 == "Visual Studio 14 2015"
        generator64 == "Visual Studio 14 2015 Win64"
        static_options == <<>>
        dynamic_options == << <<"BUILD_SHARED_LIBS", TRUE>>,
                              <<"USE_STATIC_CRT", TRUE>>,
                              <<"SIGN_BUILD", ci>> >>
        cfg(n, g, o) == [name |-> n, generator |-> g, options |-> o]
    IN  IF platform = "win"
        THEN << cfg("win32-static", generator32, static_options),
                cfg("win32-dynamic", generator32, dynamic_options),
                cfg("win64-static", generator64, static_options),
                cfg("win64-dynamic", generator64, dynamic_options) >>
        ELSE IF platform = "osx"
        THEN << cfg("osx-static", None, <<>>),
                cfg("osx-dynamic", None, << <<"BUILD_SHARED_LIBS", TRUE>>,
                                            <<"SIGN_BUILD", ci>> >>) >>
        ELSE IF platform = "linux"
        THEN << cfg("linux-static", None, <<>>),
                cfg("linux-dynamic", None, << <<"BUILD_SHARED_LIBS", TRUE>> >>) >>
        ELSE <<>>

\* the option flags build_lib appends to initial_cmake
RECURSIVE option_flags(_)
option_flags(options) ==
    IF options = <<>> THEN <<>>
    ELSE LET key == Head(options)[1]
             val == IF Head(options)[2] THEN "ON" ELSE "OFF"
         IN  <<"-D" \o key \o "=" \o val>> \o option_flags(Tail(options))

\* initial_cmake of build_lib
initial_cmake(build_name, generator, options, ci) ==
    <<"cmake", SCRIPT_PATH,
      "-DCMAKE_INSTALL_PREFIX=" \o join(join("..", "install"), build_name)>>
    \o (IF generator # None /\ generator # "" THEN <<"-G", generator>> ELSE <<>>)
    \o (IF ci THEN <<"-DCLANG_FORMAT_SUFFIX=none">> ELSE <<>>)
    \o option_flags(options)

debug_cmake == <<"cmake", "--build", ".", "--config", "Debug">>
release_cmake == <<"cmake", "--build", ".", "--config", "Release", "--target", "install">>

\* ------------------------------------------------------------------ filesystem
\* os.makedirs(path): path and every missing directory above it
makedirs(ds, path) == ds \cup {path} \cup Parents(path)

\* mkdir_p(path)
mkdir_p(ds, path) == IF path \in ds THEN ds ELSE makedirs(ds, path)

\* an rmtree that clears the install tree only
rmtree_install_only(paths, path) ==
    {p \in paths : ~Under(join(path, "install"), p)}

\* shutil.rmtree(path, ignore_errors=True): what is left of a set of paths
rmtree(paths, path) == {p \in paths : p # path /\ ~Under(path, p)}

\* os.walk(top) run in directory d: the (path, fname) pairs it yields
walk(fs, d, top) ==
    LET root == abspath(d, top)
    IN  { LET rel == SubSeq(f, Len(root) + 2, Len(f))
              cut == rfind(rel, "/")
          IN  IF cut = 0 THEN <<top, rel>>
              ELSE <<join(top, SubSeq(rel, 1, cut - 1)), SubSeq(rel, cut + 1, Len(rel))>>
          : f \in {g \in fs : Under(root, g)} }

\* what the external build system leaves behind: the configuration step
\* writes its cache into the current directory, the install step installs
\* the library under the install prefix, relative to the current directory
shared(options) == \E i \in 1..Len(options) : options[i] = <<"BUILD_SHARED_LIBS", TRUE>>
lib_name(platform, options) ==
    IF platform = "win" THEN (IF shared(options) THEN "discord-rpc.dll" ELSE "discord-rpc.lib")
    ELSE IF platform = "osx" THEN (IF shared(options) THEN "libdiscord-rpc.dylib" ELSE "libdiscord-rpc.a")
    ELSE (IF shared(options) THEN "libdiscord-rpc.so" ELSE "libdiscord-rpc.a")
configured_file(d) == join(d, "CMakeCache.txt")
installed_file(d, platform, cfg) ==
    abspath(d, join(join(join(join("..", "install"), cfg.name), "lib"),
                    lib_name(platform, cfg.options)))

\* ------------------------------------------------------------------ inputs
PlatformIds == {"win32", "cygwin", "darwin", "darwin9", "linux", "linux2", "freebsd12"}
Subcommands == {"none", "libs", "sign", "archive", "unity", "unreal"}
Candidates == << "/repo/builds/install/o/a.dll",
                 "/repo/builds/install/.dylib",
                 "/repo/builds/o/c.dylib",
                 "/repo/builds/install/o/b.dylib",
                 "/repo/builds/install2/z.dll" >>
Min(a, b) == IF a < b THEN a ELSE b
PreFiles == {Candidates[i] : i \in 1..Min(MaxPreFiles, Len(Candidates))}
SourceFiles == {join(SCRIPT_PATH, "build.py")}

Init ==
    /\ sys_platform \in PlatformIds
    /\ IS_BUILD_MACHINE \in BOOLEAN
    /\ has_sdk \in BOOLEAN
    /\ subcommand \in Subcommands
    /\ clean \in BOOLEAN
    /\ PLATFORM = ""
    /\ pc = "import"
    /\ cwd = "/home"
    /\ old_dir = ""
    /\ \E pre \in SUBSET PreFiles :
         /\ files = SourceFiles \cup pre
         /\ dirs = {"/home", SCRIPT_PATH} \cup UNION {Parents(f) : f \in pre}
    /\ cmds = <<>>
    /\ built = <<>>
    /\ bidx = 0
    /\ todo = {}
    /\ entries = <<>>
    /\ phases = <<>>
    /\ files_at_libs = {}
    /\ cwd_at_build = ""

\* ------------------------------------------------------------------ dispatch
\* a dispatch that signs on every run
after_always_sign(phase) ==
    IF subcommand # "none" THEN "done"
    ELSE IF phase = "libs" THEN "sign"
    ELSE IF phase = "sign" THEN "archive"
    ELSE "done"

\* where the run goes when a command returns
after(phase) ==
    IF subcommand # "none" THEN "done"
    ELSE IF phase = "libs" THEN (IF IS_BUILD_MACHINE THEN "sign" ELSE "archive")
    ELSE IF phase = "sign" THEN "archive"
    ELSE "done"

\* module level: PLATFORM = get_platform()
Import ==
    /\ pc = "import"
    /\ PLATFORM' = get_platform(sys_platform)
    /\ pc' = IF get_platform(sys_platform) = "" THEN "failed" ELSE "main"
    /\ UNCHANGED <<sys_platform, IS_BUILD_MACHINE, has_sdk, subcommand, clean,
                   cwd, old_dir, files, dirs, cmds, built, bidx, todo, entries,
                   phases, files_at_libs, cwd_at_build>>

\* __main__: os.chdir(SCRIPT_PATH); cli(): the group callback, then the subcommand
Main ==
    /\ pc = "main"
    /\ cwd' = SCRIPT_PATH
    /\ pc' = IF subcommand = "none" THEN "libs"
             ELSE IF subcommand \in {"unity", "unreal"} THEN "done"
             ELSE subcommand
    /\ UNCHANGED <<sys_platform, IS_BUILD_MACHINE, has_sdk, subcommand, clean,
                   PLATFORM, old_dir, files, dirs, cmds, built, bidx, todo,
                   entries, phases, files_at_libs, cwd_at_build>>

\* ------------------------------------------------------------------ libs
\* libs(clean): if clean: shutil.rmtree('builds', ignore_errors=True)
LibsClean ==
    /\ pc = "libs"
    /\ LET b == abspath(cwd, "builds")
       IN  /\ files' = IF clean THEN rmtree(files, b) ELSE files
           /\ dirs' = IF clean THEN rmtree(dirs, b) ELSE dirs
    /\ files_at_libs' = files
    /\ phases' = Append(phases, <<"libs", "begin">>)
    /\ pc' = "libs_mkdir"
    /\ UNCHANGED <<sys_platform, IS_BUILD_MACHINE, has_sdk, subcommand, clean,
                   PLATFORM, cwd, old_dir, cmds, built, bidx, todo, entries,
                   cwd_at_build>>

\* libs(clean): mkdir_p('builds')
LibsMkdir ==
    /\ pc = "libs_mkdir"
    /\ dirs' = mkdir_p(dirs, abspath(cwd, "builds"))
    /\ bidx' = 1
    /\ pc' = "libs_build"
    /\ UNCHANGED <<sys_platform, IS_BUILD_MACHINE, has_sdk, subcommand, clean,
                   PLATFORM, cwd, old_dir, files, cmds, built, todo, entries,
                   phases, files_at_libs, cwd_at_build>>

\* build_lib up to the external commands: the two mkdir_p and entering cd(build_path)
BuildLibEnter ==
    /\ pc = "libs_build"
    /\ bidx <= Len(lib_configs(PLATFORM, IS_BUILD_MACHINE))
    /\ LET cfg == lib_configs(PLATFORM, IS_BUILD_MACHINE)[bidx]
           build_path == join(join(SCRIPT_PATH, "builds"), cfg.name)
           install_path == join(INSTALL_ROOT, cfg.name)
       IN  /\ dirs' = mkdir_p(mkdir_p(dirs, build_path), install_path)
           /\ old_dir' = cwd
           /\ cwd' = build_path
           /\ built' = Append(built, cfg)
    /\ cwd_at_build' = cwd
    /\ pc' = "bl_configure"
    /\ UNCHANGED <<sys_platform, IS_BUILD_MACHINE, has_sdk, subcommand, clean,
                   PLATFORM, files, cmds, bidx, todo, entries, phases,
                   files_at_libs>>

\* subprocess.check_call(argv): the command is invoked and returns zero or not.
\* On nonzero it raises CalledProcessError, which nothing catches: the run
\* goes to "failed" from wherever it is.  Inside "with cd(...)" the exception
\* is thrown into the generator at its yield, so the code after the yield
\* (the chdir back to old_dir) is not run.
check_call(step, argv, ok) == Append(cmds, [step |-> step, argv |-> argv, ok |-> ok])

\* a configuration step followed by the Debug build on build machines only
RunConfigure_debug_on_ci ==
    /\ pc = "bl_configure"
    /\ \E ok \in BOOLEAN :
         LET cfg == lib_configs(PLATFORM, IS_BUILD_MACHINE)[bidx]
         IN  /\ cmds' = check_call("configure",
                           initial_cmake(cfg.name, cfg.generator, cfg.options,
                                         IS_BUILD_MACHINE), ok)
             /\ files' = IF ok THEN files \cup {configured_file(cwd)} ELSE files
             /\ pc' = IF ~ok THEN "failed"
                      ELSE IF IS_BUILD_MACHINE THEN "bl_debug" ELSE "bl_release"
    /\ UNCHANGED <<sys_platform, IS_BUILD_MACHINE, has_sdk, subcommand, clean,
                   PLATFORM, cwd, old_dir, dirs, built, bidx, todo, entries,
                   phases, files_at_libs, cwd_at_build>>

\* build_lib: subprocess.check_call(initial_cmake)
RunConfigure ==
    /\ pc = "bl_configure"
    /\ \E ok \in BOOLEAN :
         LET cfg == lib_configs(PLATFORM, IS_BUILD_MACHINE)[bidx]
         IN  /\ cmds' = check_call("configure",
                           initial_cmake(cfg.name, cfg.generator, cfg.options,
                                         IS_BUILD_MACHINE), ok)
             /\ files' = IF ok THEN files \cup {configured_file(cwd)} ELSE files
             /\ pc' = IF ~ok THEN "failed"
                      ELSE IF ~IS_BUILD_MACHINE THEN "bl_debug" ELSE "bl_release"
    /\ UNCHANGED <<sys_platform, IS_BUILD_MACHINE, has_sdk, subcommand, clean,
                   PLATFORM, cwd, old_dir, dirs, built, bidx, todo, entries,
                   phases, files_at_libs, cwd_at_build>>

\* a Debug build whose exit status is not checked (subprocess.call)
RunDebug_unchecked ==
    /\ pc = "bl_debug"
    /\ \E ok \in BOOLEAN :
         /\ cmds' = check_call("debug", debug_cmake, ok)
         /\ pc' = "bl_release"
    /\ UNCHANGED <<sys_platform, IS_BUILD_MACHINE, has_sdk, subcommand, clean,
                   PLATFORM, cwd, old_dir, files, dirs, built, bidx, todo,
                   entries, phases, files_at_libs, cwd_at_build>>

\* build_lib: the Debug build, on interactive runs
RunDebug ==
    /\ pc = "bl_debug"
    /\ \E ok \in BOOLEAN :
         /\ cmds' = check_call("debug", debug_cmake, ok)
         /\ pc' = IF ok THEN "bl_release" ELSE "failed"
    /\ UNCHANGED <<sys_platform, IS_BUILD_MACHINE, has_sdk, subcommand, clean,
                   PLATFORM, cwd, old_dir, files, dirs, built, bidx, todo,
                   entries, phases, files_at_libs, cwd_at_build>>

\* build_lib: the Release build and install
RunRelease ==
    /\ pc = "bl_release"
    /\ \E ok \in BOOLEAN :
         LET cfg == lib_configs(PLATFORM, IS_BUILD_MACHINE)[bidx]
             out == installed_file(cwd, PLATFORM, cfg)
         IN  /\ cmds' = check_call("release", release_cmake, ok)
             /\ files' = IF ok THEN files \cup {out} ELSE files
             /\ dirs' = IF ok THEN dirs \cup Parents(out) ELSE dirs
             /\ pc' = IF ok THEN "bl_exit" ELSE "failed"
    /\ UNCHANGED <<sys_platform, IS_BUILD_MACHINE, has_sdk, subcommand, clean,
                   PLATFORM, cwd, old_dir, built, bidx, todo, entries, phases,
                   files_at_libs, cwd_at_build>>

\* cd(): the code after the yield, reached when the body raised nothing
cd_exit(new_dir) == IF new_dir # "" THEN old_dir ELSE cwd

\* build_lib: leaving the with block normally, back in libs
BuildLibExit ==
    /\ pc = "bl_exit"
    /\ cwd' = cd_exit(cwd)
    /\ bidx' = bidx + 1
    /\ pc' = "libs_build"
    /\ UNCHANGED <<sys_platform, IS_BUILD_MACHINE, has_sdk, subcommand, clean,
                   PLATFORM, old_dir, files, dirs, cmds, built, todo, entries,
                   phases, files_at_libs, cwd_at_build>>

\* libs returns after the last build_lib
LibsReturn ==
    /\ pc = "libs_build"
    /\ bidx > Len(lib_configs(PLATFORM, IS_BUILD_MACHINE))
    /\ phases' = Append(phases, <<"libs", "end">>)
    /\ pc' = after("libs")
    /\ UNCHANGED <<sys_platform, IS_BUILD_MACHINE, has_sdk, subcommand, clean,
                   PLATFORM, cwd, old_dir, files, dirs, cmds, built, bidx, todo,
                   entries, files_at_libs, cwd_at_build>>

\* ------------------------------------------------------------------ sign
\* a sign that reads the SDK directory before it looks at the platform
SignBegin_sdk_first ==
    /\ pc = "sign"
    /\ IF ~has_sdk
       THEN /\ phases' = Append(phases, <<"sign", "begin">>)
            /\ pc' = "failed"
            /\ todo' = todo
       ELSE IF PLATFORM \notin {"win", "osx"}
       THEN /\ phases' = phases \o << <<"sign", "begin">>, <<"sign", "end">> >>
            /\ pc' = after("sign")
            /\ todo' = todo
       ELSE /\ phases' = Append(phases, <<"sign", "begin">>)
            /\ pc' = "sign_walk"
            /\ todo' = walk(files, cwd, INSTALL_ROOT)
    /\ UNCHANGED <<sys_platform, IS_BUILD_MACHINE, has_sdk, subcommand, clean,
                   PLATFORM, cwd, old_dir, files, dirs, cmds, built, bidx,
                   entries, files_at_libs, cwd_at_build>>

\* sign() up to the walk: get_signtool(), the per-platform set-up, os.walk(INSTALL_ROOT)
SignBegin ==
    /\ pc = "sign"
    /\ IF PLATFORM = "win" /\ ~has_sdk
       THEN \* os.environ['WindowsSdkDir'] raises KeyError
            /\ phases' = Append(phases, <<"sign", "begin">>)
            /\ pc' = "failed"
            /\ todo' = todo
       ELSE IF PLATFORM \notin {"win", "osx"}
       THEN \* 'Not signing things on this platform yet'; return
            /\ phases' = phases \o << <<"sign", "begin">>, <<"sign", "end">> >>
            /\ pc' = after("sign")
            /\ todo' = todo
       ELSE /\ phases' = Append(phases, <<"sign", "begin">>)
            /\ pc' = "sign_walk"
            /\ todo' = walk(files, cwd, INSTALL_ROOT)
    /\ UNCHANGED <<sys_platform, IS_BUILD_MACHINE, has_sdk, subcommand, clean,
                   PLATFORM, cwd, old_dir, files, dirs, cmds, built, bidx,
                   entries, files_at_libs, cwd_at_build>>

\* sign(): a walked file whose extension is not signable (continue)
SignSkip ==
    /\ pc = "sign_walk"
    /\ \E t \in todo :
         /\ splitext_ext(t[2]) \notin signable_extensions(PLATFORM)
         /\ todo' = todo \ {t}
    /\ UNCHANGED <<sys_platform, IS_BUILD_MACHINE, has_sdk, subcommand, clean,
                   PLATFORM, pc, cwd, old_dir, files, dirs, cmds, built, bidx,
                   entries, phases, files_at_libs, cwd_at_build>>

\* sign(): subprocess.check_call(sign_command_base + [fpath])
SignFile ==
    /\ pc = "sign_walk"
    /\ \E t \in todo, ok \in BOOLEAN :
         /\ splitext_ext(t[2]) \in signable_extensions(PLATFORM)
         /\ LET fpath == join(t[1], t[2])
                sign_command == sign_command_base(PLATFORM) \o <<fpath>>
            IN  cmds' = check_call("sign", sign_command, ok)
         /\ todo' = todo \ {t}
         /\ pc' = IF ok THEN "sign_walk" ELSE "failed"
    /\ UNCHANGED <<sys_platform, IS_BUILD_MACHINE, has_sdk, subcommand, clean,
                   PLATFORM, cwd, old_dir, files, dirs, built, bidx, entries,
                   phases, files_at_libs, cwd_at_build>>

\* sign() returns when the walk is exhausted
SignReturn ==
    /\ pc = "sign_walk"
    /\ todo = {}
    /\ phases' = Append(phases, <<"sign", "end">>)
    /\ pc' = after("sign")
    /\ UNCHANGED <<sys_platform, IS_BUILD_MACHINE, has_sdk, subcommand, clean,
                   PLATFORM, cwd, old_dir, files, dirs, cmds, built, bidx, todo,
                   entries, files_at_libs, cwd_at_build>>

\* ------------------------------------------------------------------ archive
archive_dst_base_path == "discord-rpc"

\* archive() up to the walk: the ZipFile is opened for writing, then
\* cd(INSTALL_ROOT) is entered and os.walk('.') starts
ArchiveBegin ==
    /\ pc = "archive"
    /\ phases' = Append(phases, <<"archive", "begin">>)
    /\ LET builds_dir == join(SCRIPT_PATH, "builds")
           archive_file_path ==
               join(builds_dir, "discord-rpc-" \o get_platform(sys_platform) \o ".zip")
       IN  IF builds_dir \notin dirs
           THEN \* ZipFile cannot create the file
                /\ pc' = "failed"
                /\ UNCHANGED <<files, cwd, old_dir, todo>>
           ELSE /\ files' = files \cup {archive_file_path}
                /\ IF INSTALL_ROOT \notin dirs
                   THEN \* os.chdir raises
                        /\ pc' = "failed"
                        /\ UNCHANGED <<cwd, old_dir, todo>>
                   ELSE /\ old_dir' = cwd
                        /\ cwd' = INSTALL_ROOT
                        /\ todo' = walk(files', INSTALL_ROOT, ".")
                        /\ pc' = "archive_walk"
    /\ UNCHANGED <<sys_platform, IS_BUILD_MACHINE, has_sdk, subcommand, clean,
                   PLATFORM, dirs, cmds, built, bidx, entries, files_at_libs,
                   cwd_at_build>>

\* an internal path that is joined but not normalised
dst_path_of_unnormalised(path, fname) ==
    join(archive_dst_base_path, join(path, fname))

\* the internal path archive() gives a walked file
dst_path_of(path, fname) ==
    normpath(join(archive_dst_base_path, join(path, fname)))

\* archive(): archive_file.write(fpath, dst_path) for one walked file
ArchiveAdd ==
    /\ pc = "archive_walk"
    /\ \E t \in todo :
         /\ entries' = Append(entries, [file |-> abspath(cwd, join(t[1], t[2])),
                                        arcname |-> dst_path_of(t[1], t[2])])
         /\ todo' = todo \ {t}
    /\ UNCHANGED <<sys_platform, IS_BUILD_MACHINE, has_sdk, subcommand, clean,
                   PLATFORM, pc, cwd, old_dir, files, dirs, cmds, built, bidx,
                   phases, files_at_libs, cwd_at_build>>

\* archive() returns when the walk is exhausted, leaving cd()
ArchiveReturn ==
    /\ pc = "archive_walk"
    /\ todo = {}
    /\ cwd' = cd_exit(INSTALL_ROOT)
    /\ phases' = Append(phases, <<"archive", "end">>)
    /\ pc' = after("archive")
    /\ UNCHANGED <<sys_platform, IS_BUILD_MACHINE, has_sdk, subcommand, clean,
                   PLATFORM, old_dir, files, dirs, cmds, built, bidx, todo,
                   entries, files_at_libs, cwd_at_build>>

\* ------------------------------------------------------------------ specification
Next ==
    \/ Import
    \/ Main
    \/ LibsClean
    \/ LibsMkdir
    \/ BuildLibEnter
    \/ RunConfigure
    \/ RunDebug
    \/ RunRelease
    \/ BuildLibExit
    \/ LibsReturn
    \/ SignBegin
    \/ SignSkip
    \/ SignFile
    \/ SignReturn
    \/ ArchiveBegin
    \/ ArchiveAdd
    \/ ArchiveReturn

Spec == Init /\ [][Next]_vars

\* ------------------------------------------------------------------ properties
IsPrefix(p, q) == Len(p) <= Len(q) /\ SubSeq(q, 1, Len(p)) = p
Began(phase) == \E i \in 1..Len(phases) : phases[i] = <<phase, "begin">>
Ended(phase) == \E i \in 1..Len(phases) : phases[i] = <<phase, "end">>
endswith(s, suffix) ==
    Len(s) >= Len(suffix) /\ SubSeq(s, Len(s) - Len(suffix) + 1, Len(s)) = suffix

\* C1: with no subcommand the phases run as libs, then sign exactly when the
\* run is on a build machine, then archive; each phase ends before the next
\* begins, and archive follows whenever the earlier phases completed.
DefaultPhases ==
    << <<"libs", "begin">>, <<"libs", "end">> >>
    \o (IF IS_BUILD_MACHINE THEN << <<"sign", "begin">>, <<"sign", "end">> >> ELSE <<>>)
    \o << <<"archive", "begin">>, <<"archive", "end">> >>
C1_DefaultOrder ==
    subcommand = "none" =>
        /\ IsPrefix(phases, DefaultPhases)
        /\ (pc = "done" => phases = DefaultPhases)
        /\ (Ended("libs") /\ (IS_BUILD_MACHINE => Ended("sign"))
               => (pc = "archive" \/ Began("archive")))
C1_Witness ==
    /\ subcommand = "none" /\ IS_BUILD_MACHINE /\ pc = "done"
    /\ Len(phases) = 6 /\ phases[3] = <<"sign", "begin">>

\* C2: build_lib leaves the working directory as it found it, whether it
\* returns normally or one of its external commands fails.
LastCmdFailedInBuild ==
    /\ cmds # <<>>
    /\ ~cmds[Len(cmds)].ok
    /\ cmds[Len(cmds)].step \in {"configure", "debug", "release"}
C2_CwdRestored ==
    /\ (pc = "libs_build" /\ bidx > 1 => cwd = cwd_at_build)
    /\ (pc = "failed" /\ LastCmdFailedInBuild => cwd = cwd_at_build)

\* C3: a failing external command is the last command of the run, and the
\* run is then in its failure state: nothing is retried, no later
\* configuration is built, nothing is signed or archived afterwards.
C3_FailFast ==
    \A i \in 1..Len(cmds) :
        ~cmds[i].ok => (i = Len(cmds) /\ pc = "failed")
C3_Witness ==
    /\ pc = "failed" /\ cmds # <<>> /\ ~cmds[Len(cmds)].ok
    /\ Len(built) < Len(lib_configs(PLATFORM, IS_BUILD_MACHINE))
    /\ ~Began("archive")

\* C4: every build_lib call that succeeded ran the configuration step, then
\* the Debug build exactly on runs that are not on a build machine, then the
\* Release install; a build-machine run never runs the Debug build.
CompletedBuilds ==
    Cardinality({i \in 1..Len(cmds) : cmds[i].step = "release" /\ cmds[i].ok})
StepsPerBuild == IF IS_BUILD_MACHINE THEN 2 ELSE 3
C4_BuildSteps ==
    /\ \A j \in 1..CompletedBuilds :
         LET first == (j - 1) * StepsPerBuild + 1
             last == j * StepsPerBuild
         IN  /\ last <= Len(cmds)
             /\ [k \in 1..StepsPerBuild |-> cmds[first + k - 1].step]
                  = (IF IS_BUILD_MACHINE THEN <<"configure", "release">>
                     ELSE <<"configure", "debug", "release">>)
             /\ cmds[last].argv
                  = <<"cmake", "--build", ".", "--config", "Release", "--target", "install">>
             /\ (~IS_BUILD_MACHINE =>
                   cmds[first + 1].argv = <<"cmake", "--build", ".", "--config", "Debug">>)
    /\ (IS_BUILD_MACHINE => \A i \in 1..Len(cmds) : cmds[i].step # "debug")
C4_Witness ==
    /\ pc = "bl_exit" /\ ~IS_BUILD_MACHINE /\ bidx = 2
    /\ Len(cmds) = 6 /\ cmds[5].step = "debug"

\* C5: libs calls build_lib once per entry of the platform's table, in the
\* listed order and with that entry's arguments, and builds nothing else.
TableNames(platform) ==
    IF platform = "win"
    THEN <<"win32-static", "win32-dynamic", "win64-static", "win64-dynamic">>
    ELSE IF platform = "osx" THEN <<"osx-static", "osx-dynamic">>
    ELSE IF platform = "linux" THEN <<"linux-static", "linux-dynamic">>
    ELSE <<>>
LinuxTable ==
    << [name |-> "linux-static", generator |-> None, options |-> <<>>],
       [name |-> "linux-dynamic", generator |-> None,
        options |-> << <<"BUILD_SHARED_LIBS", TRUE>> >>] >>
C5_TableOrder ==
    LET names == [i \in 1..Len(built) |-> built[i].name]
    IN  /\ IsPrefix(names, TableNames(PLATFORM))
        /\ (Ended("libs") => names = TableNames(PLATFORM))
        /\ (PLATFORM = "linux" => IsPrefix(built, LinuxTable))
        /\ (PLATFORM = "linux" /\ Ended("libs") => built = LinuxTable)
C5_Witness ==
    /\ Ended("libs") /\ PLATFORM = "linux" /\ Len(built) = 2

\* C6: archive writes exactly one entry per file under the install root and
\* none for any other file; an entry's internal path is discord-rpc/ followed
\* by the file's path relative to the install root.
InstallFiles == {f \in files : startswith(f, "/repo/builds/install/")}
C6_ArchiveEntries ==
    /\ \A i \in 1..Len(entries) :
         /\ entries[i].file \in InstallFiles
         /\ entries[i].arcname
              = "discord-rpc/" \o SubSeq(entries[i].file,
                                         Len("/repo/builds/install/") + 1,
                                         Len(entries[i].file))
         /\ (entries[i].file = "/repo/builds/install/osx-dynamic/lib/libdiscord-rpc.dylib"
               => entries[i].arcname = "discord-rpc/osx-dynamic/lib/libdiscord-rpc.dylib")
         /\ \A j \in 1..Len(entries) : entries[j].file = entries[i].file => j = i
    /\ (Ended("archive") =>
          {entries[i].file : i \in 1..Len(entries)} = InstallFiles)
C6_Witness ==
    /\ Ended("archive")
    /\ \E i \in 1..Len(entries) :
         entries[i].arcname = "discord-rpc/osx-dynamic/lib/libdiscord-rpc.dylib"
    /\ \E i \in 1..Len(entries) : entries[i].arcname = "discord-rpc/.dylib"
    /\ "/repo/builds/o/c.dylib" \in files
    /\ "/repo/builds/discord-rpc-osx.zip" \in files

\* C7: on win and osx a completed sign has invoked the signing tool exactly
\* once per file under the install root that carries the platform's signable
\* extension, as the base command followed by the file's full path, and has
\* invoked it for no other file.
HasExtension(f, ext) ==
    /\ endswith(f, ext)
    /\ LET stem == SubSeq(f, rfind(f, "/") + 1, Len(f) - Len(ext))
       IN  \E k \in 1..Len(stem) : Char(stem, k) # "."
PlatformExtension == IF PLATFORM = "win" THEN ".dll" ELSE ".dylib"
SignCmds == {i \in 1..Len(cmds) : cmds[i].step = "sign"}
C7_SignsSignable ==
    PLATFORM \in {"win", "osx"} =>
        /\ \A i \in SignCmds :
             LET n == Len(cmds[i].argv)
                 f == cmds[i].argv[n]
             IN  /\ f \in InstallFiles
                 /\ HasExtension(f, PlatformExtension)
                 /\ SubSeq(cmds[i].argv, 1, n - 1) = sign_command_base(PLATFORM)
                 /\ cmds[i].argv[1] = (IF PLATFORM = "win"
                                       THEN "C:/sdk/bin/x86/signtool.exe"
                                       ELSE "/usr/bin/codesign")
                 /\ \A j \in SignCmds : cmds[j].argv[Len(cmds[j].argv)] = f => j = i
        /\ (Ended("sign") =>
              {cmds[i].argv[Len(cmds[i].argv)] : i \in SignCmds}
                = {f \in InstallFiles : HasExtension(f, PlatformExtension)})
C7_Witness ==
    /\ PLATFORM = "osx" /\ Ended("sign")
    /\ \E i \in SignCmds :
         cmds[i].argv[Len(cmds[i].argv)]
           = "/repo/builds/install/osx-dynamic/lib/libdiscord-rpc.dylib"
    /\ "/repo/builds/install/.dylib" \in files
    /\ "/repo/builds/install/o/a.dll" \in files

\* C8: on linux sign invokes the signing tool for no file and returns
\* normally, whatever the install root holds.
C8_LinuxSignNoop ==
    PLATFORM = "linux" =>
        /\ SignCmds = {}
        /\ pc \notin {"sign_walk"}
        /\ \A i \in 1..Len(phases) :
             phases[i] = <<"sign", "begin">> =>
                 i < Len(phases) /\ phases[i + 1] = <<"sign", "end">>
C8_Witness ==
    /\ PLATFORM = "linux" /\ Ended("sign") /\ pc = "done"
    /\ "/repo/builds/install/o/a.dll" \in files

\* C9: libs with clean removes everything under the builds directory, and
\* the directory itself, before it recreates any directory or builds any
\* configuration; libs without clean removes nothing before the first build.
InBuilds(p) == p = "/repo/builds" \/ startswith(p, "/repo/builds/")
C10_AsStated ==
    pc # "import" =>
        /\ (startswith(sys_platform, "win") => PLATFORM = "win")
        /\ (startswith(sys_platform, "darwin") => PLATFORM = "osx")
        /\ (startswith(sys_platform, "linux") => PLATFORM = "linux")
        /\ (~startswith(sys_platform, "win") /\ ~startswith(sys_platform, "darwin")
              /\ ~startswith(sys_platform, "linux")
              => PLATFORM = "" /\ pc = "failed")

\* C10 amended: win and linux are recognised by prefix, osx only by the
\* identifier darwin itself; every other identifier, one that merely starts
\* with darwin included, fails without a tag.
C10_Detection ==
    pc # "import" =>
        /\ (startswith(sys_platform, "win") => PLATFORM = "win")
        /\ (sys_platform = "darwin" => PLATFORM = "osx")
        /\ (startswith(sys_platform, "linux") => PLATFORM = "linux")
        /\ (~startswith(sys_platform, "win") /\ sys_platform # "darwin"
              /\ ~startswith(sys_platform, "linux")
              => PLATFORM = "" /\ pc = "failed")
        /\ (pc # "failed" => PLATFORM \in {"win", "osx", "linux"})
C10_Witness ==
    /\ sys_platform = "darwin9" /\ pc = "failed" /\ PLATFORM = ""

====
